---- MODULE Spec2Model ----
(***************************************************************************)
(* Model of the inline template / styles migration schematic               *)
(* (damiansire/angular-tools, migrarTemplates).                            *)
(*                                                                         *)
(* A file's text is a sequence of symbols.  Punctuation, whitespace and    *)
(* comments are one symbol per character/token; a property of the          *)
(* decorator's object literal is one "entry" symbol, widened by "cont"     *)
(* symbols when its literal is long.  Offsets are 0-based positions in     *)
(* that sequence, exactly as the code's offsets are positions in the       *)
(* file's string: the symbol at offset k is text[k + 1].                   *)
(*                                                                         *)
(* Two builds of the rule are modelled:                                    *)
(*   "v1"  src/src/migrar-templates/index.ts (template only, separator     *)
(*         chosen from what follows / precedes the entry)                  *)
(*   "v2"  src/unnamed/part_001 lines 226-495 (template and styles, the    *)
(*         replacement always prefixed by a separator and a newline)       *)
(***************************************************************************)
EXTENDS Integers, Sequences, FiniteSets, TLC

VARIABLES
    variant,    \* which build of the rule runs: "v1" or "v2"
    tree,       \* the schematic's virtual Tree: path -> file text
    runStart,   \* the tree the current run started from (history)
    pending,    \* paths the directory visitor has still to hand over, in its order
    run,        \* number of the current run of migrate (1-based)
    phase,      \* "visiting" | "returned" | "aborted"
    log,        \* diagnostics emitted through context.logger, in order
    outcome,    \* path -> return point taken by the last visit of the path
    edits       \* the edits the last visit computed (history)

vars == <<variant, tree, runStart, pending, run, phase, log, outcome, edits>>

(***************************************************************************)
(* Bounds of the model                                                     *)
(***************************************************************************)
MaxEntries == 3     \* properties in a generated decorator block
MaxLead == 1        \* whitespace characters of leading trivia per entry
MaxWidth == 9       \* symbols spanned by a long template literal
MaxRuns == 2        \* consecutive runs of migrate over the same tree

(***************************************************************************)
(* Symbols and texts                                                       *)
(***************************************************************************)
Sym(t, key, kind, els) == [t |-> t, key |-> key, kind |-> kind, els |-> els]

LBrace == Sym("{", "", "", <<>>)
RBrace == Sym("}", "", "", <<>>)
Comma == Sym(",", "", "", <<>>)
Space == Sym("ws", " ", "", <<>>)
Newline == Sym("ws", "\n", "", <<>>)
Comment == Sym("comment", "", "", <<>>)
Cont == Sym("cont", "", "", <<>>)
Code(s) == Sym("code", s, "", <<>>)
Deco(name) == Sym("deco", name, "", <<>>)
Raw(s) == Sym("raw", s, "", <<>>)

\* Elements of a literal: a literal string, or any other expression.
Lit(s) == [lit |-> TRUE, text |-> s]
NonLit(s) == [lit |-> FALSE, text |-> s]

\* key: 'x' / key: `x`
StrEntry(key, s) == Sym("entry", key, "str", <<Lit(s)>>)
\* key: [ ... ]
ArrEntry(key, els) == Sym("entry", key, "arr", els)
\* key: someIdentifier, key: call(), key: `a${b}` ...
OtherEntry(key) == Sym("entry", key, "other", <<>>)
\* shorthand property, spread, method, quoted key: no PropertyAssignment
\* with an identifier name
UnnamedEntry(key) == Sym("entry", key, "unnamed", <<>>)

IsTrivia(s) == s.t \in {"ws", "comment"}
IsWhitespace(s) == s.t = "ws"

\* String.prototype.substring on a text, 0-based, end exclusive
Substring(text, from, to) == SubSeq(text, from + 1, to)

Max(S) == CHOOSE x \in S : \A y \in S : y <= x
Min(S) == CHOOSE x \in S : \A y \in S : x <= y

RECURSIVE Concat(_)
Concat(seqs) == IF seqs = <<>> THEN <<>> ELSE Head(seqs) \o Concat(Tail(seqs))

RECURSIVE Repeat(_, _)
Repeat(s, n) == IF n <= 0 THEN <<>> ELSE <<s>> \o Repeat(s, n - 1)

(***************************************************************************)
(* Paths.  A path is a directory (its segments) and a file name (its       *)
(* dot-separated segments): /src/app/x.component.ts is                     *)
(* [dir |-> <<"src","app">>, name |-> <<"x","component","ts">>].           *)
(***************************************************************************)
Path(dir, name) == [dir |-> dir, name |-> name]

Front(s) == SubSeq(s, 1, Len(s) - 1)
Last(s) == s[Len(s)]

RECURSIVE JoinDots(_)
JoinDots(name) ==
    IF Len(name) = 0 THEN ""
    ELSE IF Len(name) = 1 THEN name[1]
    ELSE name[1] \o "." \o JoinDots(Tail(name))

\* filePath.endsWith(".component.ts")
EndsWithComponentTs(path) ==
    /\ Len(path.name) >= 3
    /\ path.name[Len(path.name)] = "ts"
    /\ path.name[Len(path.name) - 1] = "component"

\* basename(filePath, ".ts"): the file name with a trailing ".ts" stripped
basename(path) ==
    IF Len(path.name) > 1 /\ Last(path.name) = "ts" THEN Front(path.name)
    ELSE path.name

\* dirname(filePath)
dirname(path) == path.dir

\* normalize(join(componentDir, fileName))
JoinPath(dir, name) == Path(dir, name)

\* One markup file name for every component
htmlFileNameShared(base) == <<"shared", "html">>

\* `${componentBaseName}.html`
htmlFileName(base) == base \o <<"html">>

\* The file name numbered by the index itself
scssFileNameByIndex(base, index) ==
    IF index = 0 THEN base \o <<"scss">>
    ELSE Front(base) \o <<Last(base) \o "-" \o ToString(index), "scss">>

\* index === 0 ? `${componentBaseName}.scss` : `${componentBaseName}-${index + 1}.scss`
scssFileName(base, index) ==
    IF index = 0 THEN base \o <<"scss">>
    ELSE Front(base) \o <<Last(base) \o "-" \o ToString(index + 1), "scss">>

\* `./${fileName}`
RelativePath(name) == "./" \o JoinDots(name)

(***************************************************************************)
(* The syntax tree of a text (ts.createSourceFile and the node accessors)  *)
(***************************************************************************)
\* 1-based index of the last symbol of the entry whose first symbol is at k
RECURSIVE EntryLast(_, _)
EntryLast(text, k) ==
    IF k < Len(text) /\ text[k + 1].t = "cont" THEN EntryLast(text, k + 1) ELSE k

\* The node of the entry at index k: pos is getFullStart() (right after the
\* previous token, so that the leading trivia belongs to the node), start is
\* getStart(), end is getEnd().
NodeAt(text, k) ==
    [found |-> TRUE,
     pos   |-> Max({j \in 0..(k - 1) : j = 0 \/ ~IsTrivia(text[j])}),
     start |-> k - 1,
     end   |-> EntryLast(text, k),
     sym   |-> text[k]]

NoNode == [found |-> FALSE, pos |-> 0, start |-> 0, end |-> 0, sym |-> Cont]

RECURSIVE NodesBetween(_, _, _)
NodesBetween(text, from, to) ==
    IF from > to THEN <<>>
    ELSE IF text[from].t = "entry"
         THEN <<NodeAt(text, from)>> \o NodesBetween(text, from + 1, to)
         ELSE NodesBetween(text, from + 1, to)

NoBlock == [found |-> FALSE, open |-> 0, close |-> 0, properties |-> <<>>]

\* The object literal that opens at index open (its "{"): it closes at the
\* first "}" after it.
BlockAt(text, open) ==
    LET close == Min({j \in (open + 1)..Len(text) : text[j] = RBrace})
    IN [found |-> TRUE, open |-> open, close |-> close,
        properties |-> NodesBetween(text, open + 1, close - 1)]

\* The class declarations of a text (its top-level statements) decorated by
\* a call of `Component` whose first argument is an object literal
ComponentBlocks(text) ==
    {i \in 1..(Len(text) - 1) :
        /\ text[i] = Deco("Component")
        /\ text[i + 1] = LBrace
        /\ \E j \in (i + 2)..Len(text) : text[j] = RBrace}

\* visitNode assigns componentDecorator at every matching class it is called
\* on and returns undefined, so ts.forEachChild goes on to the following
\* sibling statements: a later matching class of the file replaces an
\* earlier one, and the last one is what is returned.
findComponentDecorator(text) ==
    LET hits == ComponentBlocks(text)
    IN IF hits = {} THEN NoBlock ELSE BlockAt(text, Max(hits) + 1)

\* ts.isPropertyAssignment(prop) && ts.isIdentifier(prop.name) && prop.name.text === propertyName
IsNamedAssignment(node, propertyName) ==
    /\ node.sym.t = "entry"
    /\ node.sym.kind # "unnamed"
    /\ node.sym.key = propertyName

\* decorator.properties.find(...)
FindProperty(decorator, propertyName) ==
    LET idx == {i \in 1..Len(decorator.properties) :
                   IsNamedAssignment(decorator.properties[i], propertyName)}
    IN IF idx = {} THEN NoNode ELSE decorator.properties[Min(idx)]

\* A check of the reference entry that never finds one
HasPropertyNever(decorator, propertyName) == FALSE

\* decorator.properties.some(...)
HasProperty(decorator, propertyName) ==
    \E i \in 1..Len(decorator.properties) :
        IsNamedAssignment(decorator.properties[i], propertyName)

Undefined == [defined |-> FALSE, isArray |-> FALSE, value |-> <<>>]

\* index.ts: a string literal or a no-substitution template literal only
getDecoratorPropertyValueV1(decorator, propertyName) ==
    LET property == FindProperty(decorator, propertyName)
    IN IF property.found /\ property.sym.kind = "str"
       THEN [defined |-> TRUE, isArray |-> FALSE,
             value |-> <<property.sym.els[1].text>>]
       ELSE Undefined

\* part_001: also an array literal, each non-literal element mapped to ''
getDecoratorPropertyValueV2(decorator, propertyName) ==
    LET property == FindProperty(decorator, propertyName)
    IN IF property.found /\ property.sym.kind = "str"
       THEN [defined |-> TRUE, isArray |-> FALSE,
             value |-> <<property.sym.els[1].text>>]
       ELSE IF property.found /\ property.sym.kind = "arr"
       THEN [defined |-> TRUE, isArray |-> TRUE,
             value |-> [i \in 1..Len(property.sym.els) |->
                           IF property.sym.els[i].lit
                           THEN property.sym.els[i].text ELSE ""]]
       ELSE Undefined

\* A lookup of the entry that never finds one
getDecoratorPropertyNodeNull(decorator, propertyName) == NoNode

\* index.ts 67-78: the same find as getDecoratorPropertyValue
getDecoratorPropertyNode(decorator, propertyName) ==
    FindProperty(decorator, propertyName)

(***************************************************************************)
(* The two regular expressions                                             *)
(***************************************************************************)
RECURSIVE SkipWhitespaceForward(_, _)
SkipWhitespaceForward(text, off) ==
    IF off < Len(text) /\ IsWhitespace(text[off + 1])
    THEN SkipWhitespaceForward(text, off + 1) ELSE off

RECURSIVE SkipWhitespaceBackward(_, _)
SkipWhitespaceBackward(text, off) ==
    IF off > 0 /\ IsWhitespace(text[off])
    THEN SkipWhitespaceBackward(text, off - 1) ELSE off

\* text.substring(end).match(/^\s*,/): the length of the match, 0 for null
CommaMatchAfter(text, end) ==
    LET e == SkipWhitespaceForward(text, end)
    IN IF e < Len(text) /\ text[e + 1] = Comma THEN e + 1 - end ELSE 0

\* A match before the node that always fails
CommaMatchBeforeNever(text, fullStart) == 0

\* text.substring(0, fullStart).match(/,\s*$/): the length of the match, 0 for null
CommaMatchBefore(text, fullStart) ==
    LET b == SkipWhitespaceBackward(text, fullStart)
    IN IF b > 0 /\ text[b] = Comma THEN fullStart - b + 1 ELSE 0

(***************************************************************************)
(* The Tree and its UpdateRecorder                                         *)
(***************************************************************************)
\* What the tree holds at a path that is a directory, not a file
Directory == <<Sym("dir", "", "", <<>>)>>

\* tree.exists(path): true of files only
Exists(t, path) == path \in DOMAIN t /\ t[path] # Directory

\* tree.create(path, content) throws FileAlreadyExistsException when the
\* path is taken, by a file or by a directory
CreateThrows(t, path) == path \in DOMAIN t

\* Ignoring every path handed to tree.create
CreateNothing(t, path, content) == t

\* tree.create(path, content)
Create(t, path, content) ==
    [q \in DOMAIN t \cup {path} |-> IF q = path THEN <<Raw(content)>> ELSE t[q]]

\* tree.overwrite(path, text), as commitUpdate does
Overwrite(t, path, text) == [t EXCEPT ![path] = text]

\* recorder.remove / recorder.insertLeft throw on an index outside the
\* content the recorder was begun on
RecorderThrows(base, removalStart, removalEnd, insertPos) ==
    \/ removalStart < 0
    \/ removalEnd > Len(base)
    \/ removalEnd < removalStart
    \/ insertPos < 0
    \/ insertPos > Len(base)

\* The content commitUpdate writes for one remove and one insertLeft made on
\* a recorder begun on base: both indices are positions in base; text
\* inserted inside or at the edge of the removed range stands in its place.
ApplyRecorder(base, removalStart, removalEnd, insertPos, insert) ==
    IF insertPos < removalStart
    THEN Substring(base, 0, insertPos) \o insert
         \o Substring(base, insertPos, removalStart)
         \o Substring(base, removalEnd, Len(base))
    ELSE IF insertPos > removalEnd
    THEN Substring(base, 0, removalStart)
         \o Substring(base, removalEnd, insertPos) \o insert
         \o Substring(base, insertPos, Len(base))
    ELSE Substring(base, 0, removalStart) \o insert
         \o Substring(base, removalEnd, Len(base))

\* context.logger.<level>(...)
Msg(level, what, path) == [level |-> level, what |-> what, path |-> path]

(***************************************************************************)
(* The per-file callbacks                                                  *)
(***************************************************************************)
\* An edit of one recorder: its offsets were computed on the text computedOn
\* (the content read at the start of the callback) and are applied to the
\* text appliedTo (the content the recorder was begun on).
Edit(concern, removalStart, removalEnd, insertPos, insert, computedOn, appliedTo, committed) ==
    [concern |-> concern, removalStart |-> removalStart, removalEnd |-> removalEnd,
     insertPos |-> insertPos, insert |-> insert,
     fileLength |-> Len(computedOn), baseLength |-> Len(appliedTo),
     onOriginal |-> (appliedTo = computedOn), committed |-> committed]

\* What a visit leaves behind: the tree, the messages logged, the return
\* point taken, the edits computed, and whether an exception left the callback.
Result(t, msgs, ret, eds, thrown) ==
    [tree |-> t, log |-> msgs, ret |-> ret, edits |-> eds, thrown |-> thrown]

\* index.ts 170-202: the removal range and the separator decision
RemovalRangeV1(text, node, nprops) ==
    LET after == IF nprops > 1 THEN CommaMatchAfter(text, node.end) ELSE 0
        before == IF nprops > 1 /\ after = 0
                  THEN CommaMatchBefore(text, node.pos) ELSE 0
    IN [removalStart |-> node.pos - before,
        removalEnd |-> node.end + after,
        needsCommaInserted |-> after > 0]

\* The replacement always followed by a separator
TextToInsertV1AlwaysComma(relativeHtmlPath, needsCommaInserted) ==
    <<StrEntry("templateUrl", relativeHtmlPath), Comma>>

\* index.ts 209: `${newTemplateUrlProperty}${needsCommaInserted ? "," : ""}`
TextToInsertV1(relativeHtmlPath, needsCommaInserted) ==
    <<StrEntry("templateUrl", relativeHtmlPath)>>
    \o (IF needsCommaInserted THEN <<Comma>> ELSE <<>>)

\* index.ts 86-218: the callback of tree.getDir("/").visit
VisitV1(t, filePath) ==
    IF ~EndsWithComponentTs(filePath)
    THEN Result(t, <<>>, "NotComponentFile", <<>>, FALSE)
    ELSE IF ~Exists(t, filePath)
    THEN Result(t, <<Msg("warn", "CouldNotRead", filePath)>>, "Unreadable", <<>>, FALSE)
    ELSE
    LET content == t[filePath]
        componentDecorator == findComponentDecorator(content)
    IN
    IF ~componentDecorator.found
    THEN Result(t, <<>>, "NoDecorator", <<>>, FALSE)
    ELSE IF HasProperty(componentDecorator, "templateUrl")
    THEN Result(t, <<Msg("debug", "HasTemplateUrl", filePath)>>,
                "HasTemplateUrl", <<>>, FALSE)
    ELSE
    LET templateContent == getDecoratorPropertyValueV1(componentDecorator, "template")
    IN
    IF ~templateContent.defined
    THEN Result(t, <<Msg("debug", "NoInlineTemplate", filePath)>>,
                "NoInlineTemplate", <<>>, FALSE)
    ELSE
    LET componentBaseName == basename(filePath)
        htmlName == htmlFileName(componentBaseName)
        htmlFilePath == JoinPath(dirname(filePath), htmlName)
        relativeHtmlPath == RelativePath(htmlName)
        existed == Exists(t, htmlFilePath)
        t1 == IF existed THEN t ELSE Create(t, htmlFilePath, templateContent.value[1])
        msgs1 == <<Msg("info", "Processing", filePath),
                   IF existed THEN Msg("warn", "HtmlExists", htmlFilePath)
                   ELSE Msg("debug", "Created", htmlFilePath)>>
        templatePropertyNode == getDecoratorPropertyNode(componentDecorator, "template")
    IN
    IF ~existed /\ CreateThrows(t, htmlFilePath)
    THEN Result(t, <<Msg("info", "Processing", filePath)>>, "Thrown", <<>>, TRUE)
    ELSE IF ~templatePropertyNode.found
    THEN Result(t1, msgs1 \o <<Msg("error", "MissingNode", filePath)>>,
                "MissingNode", <<>>, FALSE)
    ELSE
    LET base == t1[filePath]      \* tree.beginUpdate(filePath)
        r == RemovalRangeV1(content, templatePropertyNode,
                            Len(componentDecorator.properties))
        textToInsert == TextToInsertV1(relativeHtmlPath, r.needsCommaInserted)
        insertPos == templatePropertyNode.start
    IN
    IF RecorderThrows(base, r.removalStart, r.removalEnd, insertPos)
    THEN Result(t1, msgs1, "Thrown",
                <<Edit("template", r.removalStart, r.removalEnd, insertPos,
                       textToInsert, content, base, FALSE)>>, TRUE)
    ELSE Result(Overwrite(t1, filePath,
                   ApplyRecorder(base, r.removalStart, r.removalEnd, insertPos, textToInsert)),
                msgs1 \o <<Msg("info", "Updated", filePath)>>,
                "Updated",
                <<Edit("template", r.removalStart, r.removalEnd, insertPos,
                       textToInsert, content, base, TRUE)>>, FALSE)

\* part_001 313-331
createScssFile(t, componentDir, componentBaseName, content, index) ==
    LET scssName == scssFileName(componentBaseName, index)
        scssFilePath == JoinPath(componentDir, scssName)
    IN IF ~Exists(t, scssFilePath) /\ CreateThrows(t, scssFilePath)
       THEN [tree |-> t, url |-> RelativePath(scssName), thrown |-> TRUE]
       ELSE [tree |-> IF Exists(t, scssFilePath) THEN t
                      ELSE Create(t, scssFilePath, content),
             url |-> RelativePath(scssName), thrown |-> FALSE]

\* part_001 448-450: stylesContent.map((style, index) => createScssFile(...)),
\* elements from index i (0-based) on
RECURSIVE createScssFiles(_, _, _, _, _)
createScssFiles(t, componentDir, componentBaseName, styles, i) ==
    IF i >= Len(styles) THEN [tree |-> t, urls |-> <<>>, thrown |-> FALSE]
    ELSE LET one == createScssFile(t, componentDir, componentBaseName, styles[i + 1], i)
             rest == createScssFiles(one.tree, componentDir, componentBaseName, styles, i + 1)
         IN IF one.thrown THEN [tree |-> t, urls |-> <<>>, thrown |-> TRUE]
            ELSE [tree |-> rest.tree, urls |-> <<one.url>> \o rest.urls,
                  thrown |-> rest.thrown]

\* part_001 391-403 and 432-444: the removal range, clamped to the file
RemovalRangeV2(content, node) ==
    LET fileLength == Len(content)
        start0 == IF node.pos > 0 THEN node.pos ELSE 0
        removalEnd == IF node.end < fileLength THEN node.end ELSE fileLength
        before == CommaMatchBefore(content, start0)
        removalStart == IF start0 - before > 0 THEN start0 - before ELSE 0
    IN [removalStart |-> removalStart,
        removalEnd |-> removalEnd,
        valid |-> removalStart < fileLength /\ removalEnd <= fileLength]

\* part_001 405: `,\n  templateUrl: '${relativeHtmlPath}'`
TemplateTextToInsertV2(relativeHtmlPath) ==
    <<Comma, Newline, Space, Space, StrEntry("templateUrl", relativeHtmlPath)>>

\* part_001 451 and 455: `,\n  styleUrls: ['./a.scss', './a-2.scss']`
StylesTextToInsertV2(urls) ==
    <<Comma, Newline, Space, Space,
      ArrEntry("styleUrls", [i \in 1..Len(urls) |-> Lit(urls[i])])>>

Step(t, msgs, eds, thrown) == [tree |-> t, log |-> msgs, edits |-> eds, thrown |-> thrown]

\* part_001 367-413: the template migration of one file.  content and
\* componentDecorator are the text read at the start of the callback and its
\* syntax tree.
TemplateStepV2(t, filePath, content, componentDecorator) ==
    IF HasProperty(componentDecorator, "templateUrl")
    THEN Step(t, <<>>, <<>>, FALSE)
    ELSE
    LET templateContent == getDecoratorPropertyValueV2(componentDecorator, "template")
    IN
    IF ~templateContent.defined
    THEN Step(t, <<>>, <<>>, FALSE)
    ELSE
    LET componentBaseName == basename(filePath)
        htmlName == htmlFileName(componentBaseName)
        htmlFilePath == JoinPath(dirname(filePath), htmlName)
        t1 == IF Exists(t, htmlFilePath) THEN t
              ELSE Create(t, htmlFilePath,
                          IF Len(templateContent.value) > 0
                          THEN templateContent.value[1] ELSE "")
        templatePropertyNode == getDecoratorPropertyNode(componentDecorator, "template")
    IN
    IF ~Exists(t, htmlFilePath) /\ CreateThrows(t, htmlFilePath)
    THEN Step(t, <<>>, <<>>, TRUE)
    ELSE IF ~templatePropertyNode.found
    THEN Step(t1, <<>>, <<>>, FALSE)
    ELSE
    LET base == t1[filePath]      \* tree.beginUpdate(filePath)
        r == RemovalRangeV2(content, templatePropertyNode)
        textToInsert == TemplateTextToInsertV2(RelativePath(htmlName))
        e == Edit("template", r.removalStart, r.removalEnd, r.removalStart,
                  textToInsert, content, base, FALSE)
    IN
    IF ~r.valid
    THEN Step(t1, <<Msg("warn", "InvalidRemovalRange", filePath)>>, <<>>, FALSE)
    ELSE IF RecorderThrows(base, r.removalStart, r.removalEnd, r.removalStart)
    THEN Step(t1, <<>>, <<e>>, TRUE)
    ELSE Step(Overwrite(t1, filePath,
                 ApplyRecorder(base, r.removalStart, r.removalEnd, r.removalStart, textToInsert)),
              <<>>, <<[e EXCEPT !.committed = TRUE]>>, FALSE)

\* part_001 415-465: the styles migration of one file, begun on the tree the
\* template migration left, with the text and the syntax tree read at the
\* start of the callback.
StylesStepV2(t, filePath, content, componentDecorator) ==
    IF HasProperty(componentDecorator, "styleUrls")
    THEN Step(t, <<>>, <<>>, FALSE)
    ELSE
    LET stylesContent == getDecoratorPropertyValueV2(componentDecorator, "styles")
        stylesPropertyNode == getDecoratorPropertyNode(componentDecorator, "styles")
    IN
    IF ~stylesContent.defined \/ ~stylesPropertyNode.found
    THEN Step(t, <<>>, <<>>, FALSE)
    ELSE
    LET base == t[filePath]       \* tree.beginUpdate(filePath)
        r == RemovalRangeV2(content, stylesPropertyNode)
        made == createScssFiles(t, dirname(filePath), basename(filePath),
                                stylesContent.value, 0)
        textToInsert == StylesTextToInsertV2(made.urls)
        e == Edit("styles", r.removalStart, r.removalEnd, r.removalStart,
                  textToInsert, content, base, FALSE)
    IN
    IF ~r.valid
    THEN Step(t, <<Msg("warn", "InvalidRemovalRange", filePath)>>, <<>>, FALSE)
    ELSE IF RecorderThrows(base, r.removalStart, r.removalEnd, r.removalStart)
    THEN Step(t, <<>>, <<e>>, TRUE)       \* recorder.remove throws: nothing created yet
    ELSE IF made.thrown
    THEN Step(made.tree, <<>>, <<e>>, TRUE)   \* tree.create throws: recorder not committed
    ELSE Step(Overwrite(made.tree, filePath,
                 ApplyRecorder(base, r.removalStart, r.removalEnd, r.removalStart, textToInsert)),
              <<>>, <<[e EXCEPT !.committed = TRUE]>>, FALSE)

\* part_001 467-477: the callback's catch block
CatchLog(filePath) ==
    <<Msg("error", "ErrorProcessing", filePath),
      Msg("error", "Message", filePath),
      Msg("error", "Stack", filePath)>>

\* part_001 340-478: the callback of tree.getDir("/src").visit
VisitV2(t, filePath) ==
    IF ~EndsWithComponentTs(filePath)
    THEN Result(t, <<Msg("debug", "NotComponentFile", filePath)>>,
                "NotComponentFile", <<>>, FALSE)
    ELSE IF ~Exists(t, filePath)
    THEN Result(t, <<Msg("warn", "CouldNotRead", filePath)>>, "Unreadable", <<>>, FALSE)
    ELSE
    LET content == t[filePath]
        componentDecorator == findComponentDecorator(content)
    IN
    IF ~componentDecorator.found
    THEN Result(t, <<Msg("debug", "NoDecorator", filePath)>>, "NoDecorator", <<>>, FALSE)
    ELSE
    LET a == TemplateStepV2(t, filePath, content, componentDecorator)
    IN
    IF a.thrown
    THEN Result(a.tree, a.log \o CatchLog(filePath), "Caught", a.edits, FALSE)
    ELSE
    LET b == StylesStepV2(a.tree, filePath, content, componentDecorator)
    IN
    IF b.thrown
    THEN Result(b.tree, a.log \o b.log \o CatchLog(filePath), "Caught",
                a.edits \o b.edits, FALSE)
    ELSE Result(b.tree, a.log \o b.log, "Finished", a.edits \o b.edits, FALSE)

(***************************************************************************)
(* The trees a run can start from                                          *)
(***************************************************************************)
AppDir == <<"src", "app">>
ComponentPath == Path(AppDir, <<"x", "component", "ts">>)
HtmlPath == Path(AppDir, <<"x", "component", "html">>)
ScssPath == Path(AppDir, <<"x", "component", "scss">>)
Scss2Path == Path(AppDir, <<"x", "component-2", "scss">>)

TemplateText == "<p>hi</p>"

\* The properties a generated block is made of
EntryOptions ==
    { StrEntry("selector", "x"),
      StrEntry("template", TemplateText),
      OtherEntry("template"),
      StrEntry("styles", "a{}"),
      ArrEntry("styles", <<Lit("a{}"), Lit("b{}")>>),
      ArrEntry("styles", <<Lit("a{}"), NonLit("theme")>>),
      OtherEntry("styles"),
      StrEntry("templateUrl", "./x.component.html"),
      ArrEntry("styleUrls", <<Lit("./x.component.scss")>>) }

\* Blocks of 1..MaxEntries properties, no key twice
EntrySeqs ==
    UNION { { es \in [1..n -> EntryOptions] :
                \A i, j \in 1..n : i # j => es[i].key # es[j].key }
            : n \in 1..MaxEntries }

\* How a block is laid out: lead spaces before every entry, optionally a
\* comment before every entry, a space between an entry and its comma, a
\* trailing comma after the last entry, a long template literal.
Layouts ==
    { l \in [lead : 0..MaxLead, cmt : BOOLEAN, gap : BOOLEAN,
             trail : BOOLEAN, wide : BOOLEAN] :
        Cardinality({f \in {"cmt", "gap", "wide"} : l[f]}) <= 1 }

EntryText(e, l, isLast) ==
    Repeat(Space, l.lead)
    \o (IF l.cmt THEN <<Comment, Space>> ELSE <<>>)
    \o <<e>>
    \o (IF l.wide /\ e.key = "template" /\ e.kind = "str"
        THEN Repeat(Cont, MaxWidth - 1) ELSE <<>>)
    \o (IF l.gap THEN <<Space>> ELSE <<>>)
    \o (IF ~isLast \/ l.trail THEN <<Comma>> ELSE <<>>)

\* import ...; @Component({ ... }) export class X {}
ComponentText(es, l) ==
    <<Code("import"), Deco("Component"), LBrace>>
    \o Concat([i \in 1..Len(es) |-> EntryText(es[i], l, i = Len(es))])
    \o (IF l.lead > 0 THEN <<Space>> ELSE <<>>)
    \o <<RBrace, Code("class")>>

\* External files that exist before the run, with content of their own
PreExisting == { {}, {HtmlPath, ScssPath} }

InitialTree(es, l, pre) ==
    [p \in {ComponentPath} \cup pre |->
        IF p = ComponentPath THEN ComponentText(es, l) ELSE <<Raw("old")>>]

InitialTrees ==
    { InitialTree(es, l, pre) : es \in EntrySeqs, l \in Layouts, pre \in PreExisting }

(***************************************************************************)
(* The rule: migrarTemplates()                                             *)
(***************************************************************************)
\* tree.getDir("/") in index.ts, tree.getDir("/src") in part_001
UnderRoot(v, path) ==
    IF v = "v1" THEN TRUE ELSE Len(path.dir) >= 1 /\ path.dir[1] = "src"

Visited(t, v) == {p \in DOMAIN t : UnderRoot(v, p) /\ t[p] # Directory}

\* The order in which the directory visitor hands the files of S over
VisitOrder(S) ==
    CHOOSE q \in [1..Cardinality(S) -> S] : \A p \in S : \E i \in DOMAIN q : q[i] = p

StartLog == <<Msg("info", "Start", ComponentPath)>>

Init ==
    /\ variant \in {"v1", "v2"}
    /\ tree \in InitialTrees
    /\ runStart = tree
    /\ pending = VisitOrder(Visited(tree, variant))
    /\ run = 1
    /\ phase = "visiting"
    /\ log = StartLog
    /\ outcome = [p \in Visited(tree, variant) |-> "Pending"]
    /\ edits = [p \in Visited(tree, variant) |-> <<>>]

\* One file handed to the callback
Land(p, r) ==
    /\ tree' = r.tree
    /\ log' = log \o r.log
    /\ outcome' = [outcome EXCEPT ![p] = r.ret]
    /\ edits' = [edits EXCEPT ![p] = r.edits]
    /\ IF r.thrown
       THEN phase' = "aborted" /\ pending' = pending
       ELSE phase' = phase /\ pending' = Tail(pending)
    /\ UNCHANGED <<variant, runStart, run>>

VisitFileV1(p) ==
    /\ variant = "v1"
    /\ phase = "visiting"
    /\ pending # <<>>
    /\ p = Head(pending)
    /\ Land(p, VisitV1(tree, p))

VisitFileV2(p) ==
    /\ variant = "v2"
    /\ phase = "visiting"
    /\ pending # <<>>
    /\ p = Head(pending)
    /\ Land(p, VisitV2(tree, p))

\* index.ts 220-221, part_001 492-493: every file was visited
Return ==
    /\ phase = "visiting"
    /\ pending = <<>>
    /\ phase' = "returned"
    /\ log' = log \o <<Msg("info", "Completed", ComponentPath)>>
    /\ UNCHANGED <<variant, tree, runStart, pending, run, outcome, edits>>

\* The schematic is run again on the tree the previous run returned
Rerun ==
    /\ phase = "returned"
    /\ run < MaxRuns
    /\ run' = run + 1
    /\ runStart' = tree
    /\ pending' = VisitOrder(Visited(tree, variant))
    /\ phase' = "visiting"
    /\ log' = StartLog
    /\ outcome' = [p \in Visited(tree, variant) |-> "Pending"]
    /\ edits' = [p \in Visited(tree, variant) |-> <<>>]
    /\ UNCHANGED <<variant, tree>>

Next ==
    \/ \E p \in DOMAIN tree : VisitFileV1(p)
    \/ \E p \in DOMAIN tree : VisitFileV2(p)
    \/ Return
    \/ Rerun

Spec == Init /\ [][Next]_vars

(***************************************************************************)
(* Runs over trees of several files, handed over in any order              *)
(***************************************************************************)
APath == Path(AppDir, <<"a", "component", "ts">>)
BPath == Path(AppDir, <<"b", "component", "ts">>)
\* a file that is not named *.component.ts
NotePath == Path(AppDir, <<"notes", "ts">>)
\* a component file outside src/
LibPath == Path(<<"lib">>, <<"c", "component", "ts">>)

Plain == [lead |-> 0, cmt |-> FALSE, gap |-> FALSE, trail |-> FALSE, wide |-> FALSE]

\* export class X {} : no decorator at all
NoDecoratorText == <<Code("import"), Code("class")>>

\* @Injectable({ template: m }) class X {}
OtherDecoratorText(m) ==
    <<Code("import"), Deco("Injectable"), LBrace, StrEntry("template", m), RBrace,
      Code("class")>>

\* @Component({ template: m }) class X {} @Component({ template: 'second' }) class Y {}
TwoClassesText(m) ==
    <<Deco("Component"), LBrace, StrEntry("template", m), RBrace, Code("class"),
      Deco("Component"), LBrace, StrEntry("template", "second"), RBrace, Code("class")>>

\* @Component(config) class X {} @Component({ template: m }) class Y {}
ArgumentNotLiteralText(m) ==
    <<Deco("Component"), Code("config"), Code("class"),
      Deco("Component"), LBrace, StrEntry("template", m), RBrace, Code("class")>>

\* The texts of a component file whose literals hold the text m
UnitTexts(m) ==
    { ComponentText(<<StrEntry("template", m), StrEntry("selector", "x")>>, Plain),
      ComponentText(<<StrEntry("template", m), StrEntry("styles", m)>>,
                    [Plain EXCEPT !.wide = TRUE]),
      ComponentText(<<StrEntry("selector", "x"),
                      ArrEntry("styles", <<Lit(m), Lit("b{}")>>)>>,
                    [Plain EXCEPT !.trail = TRUE]),
      ComponentText(<<StrEntry("templateUrl", "./t.html"), StrEntry("template", m),
                      ArrEntry("styleUrls", <<Lit("./s.scss")>>), StrEntry("styles", m)>>,
                    Plain),
      ComponentText(<<OtherEntry("template"),
                      ArrEntry("styles", <<Lit(m), NonLit("theme")>>)>>, Plain),
      NoDecoratorText,
      OtherDecoratorText(m),
      TwoClassesText(m),
      ArgumentNotLiteralText(m) }

\* Directories that may stand where a.component.ts has its targets
OccupiedTargets ==
    { {}, {Path(AppDir, <<"a", "component", "html">>)},
      {Path(AppDir, <<"a", "component-2", "scss">>)} }

\* Two component files under src/app, a file that is not a component file,
\* a component file outside src/, and the directories of occ
SeveralFilesWith(ta, tb, occ) ==
    [p \in {APath, BPath, NotePath, LibPath} \cup occ |->
        IF p = APath THEN ta
        ELSE IF p = BPath THEN tb
        ELSE IF p = NotePath THEN ComponentText(<<StrEntry("template", "n")>>, Plain)
        ELSE IF p = LibPath
        THEN ComponentText(<<StrEntry("template", "c"), StrEntry("selector", "x")>>, Plain)
        ELSE Directory]

SeveralFiles ==
    { SeveralFilesWith(ta, tb, occ) :
        ta \in UnitTexts("a"), tb \in UnitTexts("b"), occ \in OccupiedTargets }

\* Every order in which the files of S can be handed over, each exactly once
VisitOrders(S) ==
    { q \in [1..Cardinality(S) -> S] : \A p \in S : \E i \in DOMAIN q : q[i] = p }

InitSeveral ==
    /\ variant \in {"v1", "v2"}
    /\ tree \in SeveralFiles
    /\ runStart = tree
    /\ pending \in VisitOrders(Visited(tree, variant))
    /\ run = 1
    /\ phase = "visiting"
    /\ log = StartLog
    /\ outcome = [p \in Visited(tree, variant) |-> "Pending"]
    /\ edits = [p \in Visited(tree, variant) |-> <<>>]

SpecSeveral == InitSeveral /\ [][Next]_vars

\* A few of the trees of several files: a.component.ts with a template that
\* is migrated or, on part_001, a template and styles whose second edit
\* throws; its markup target free or taken by a directory
FewFiles ==
    { SeveralFilesWith(ta, ComponentText(<<StrEntry("selector", "x"),
                                           StrEntry("template", "b")>>,
                                         [Plain EXCEPT !.trail = TRUE]), occ) :
        ta \in { ComponentText(<<StrEntry("template", "a"), StrEntry("selector", "x")>>,
                               Plain),
                 ComponentText(<<StrEntry("template", "a"), StrEntry("styles", "a")>>,
                               [Plain EXCEPT !.wide = TRUE]) },
        occ \in { {}, {Path(AppDir, <<"a", "component", "html">>)} } }

InitFew ==
    /\ variant \in {"v1", "v2"}
    /\ tree \in FewFiles
    /\ runStart = tree
    /\ pending \in VisitOrders(Visited(tree, variant))
    /\ run = 1
    /\ phase = "visiting"
    /\ log = StartLog
    /\ outcome = [p \in Visited(tree, variant) |-> "Pending"]
    /\ edits = [p \in Visited(tree, variant) |-> <<>>]

\* The step of the visit loop seen on the loop's own state: the next file is
\* handed to the callback, which either comes back (the file leaves the
\* enumeration) or throws out of the loop (index.ts 86-90, part_001 340-345)
Handover ==
    /\ phase = "visiting"
    /\ pending # <<>>
    /\ \/ pending' = Tail(pending) /\ phase' = phase
       \/ pending' = pending /\ phase' = "aborted"

\* The visit is a synchronous loop inside one call of the rule: as long as a
\* file is left to hand over it is handed over, and once none is left the
\* rule returns. Nothing makes the user run the schematic again.
FairFew ==
    /\ InitFew
    /\ [][Next]_vars
    /\ WF_<<pending, phase>>(Handover)
    /\ WF_vars(Return)

(***************************************************************************)
(* Observers used by the properties                                        *)
(***************************************************************************)
\* The decorator block of a text as its tokens: what stands between the
\* block's braces once whitespace, comments and continuations are dropped.
\* A text in which no block can be found has no tokens to show.
Unparsable == <<Code("unparsable")>>

BlockTokens(text) ==
    LET d == findComponentDecorator(text)
    IN IF ~d.found THEN Unparsable
       ELSE SelectSeq(Substring(text, d.open, d.close - 1),
                      LAMBDA x : ~IsTrivia(x) /\ x.t # "cont")

\* The entries of a token sequence, in order
EntriesOf(tokens) == SelectSeq(tokens, LAMBDA x : x.t = "entry")

\* entry , entry , ... entry [,] : every entry but the last is followed by
\* exactly one separator, the last by at most one, and nothing stands
\* before the first entry.
StructurallyValid(tokens) ==
    /\ \A i \in 1..Len(tokens) :
          IF i % 2 = 1 THEN tokens[i].t = "entry" ELSE tokens[i] = Comma
    /\ tokens # Unparsable

\* Separators that stand between two entries of a structurally valid block
SeparatorsBetween(tokens) ==
    Cardinality({i \in 1..(Len(tokens) - 1) : tokens[i] = Comma /\ tokens[i + 1].t = "entry"})

\* The number of properties of the block the run found in the file
EntryCount(text) == Len(findComponentDecorator(text).properties)

\* 1-based ordinal of the property named key in the block of text, 0 if none
OrdinalOf(text, key) ==
    LET d == findComponentDecorator(text)
        idx == {i \in 1..Len(d.properties) : d.properties[i].sym.key = key}
    IN IF idx = {} THEN 0 ELSE Min(idx)

\* The edits of the current run that were committed to the file p
Committed(p) == SelectSeq(edits[p], LAMBDA e : e.committed)

\* The file p has been handed to the callback in the current run
Handled(p) == p \in DOMAIN outcome /\ outcome[p] # "Pending"

(***************************************************************************)
(* Properties                                                              *)
(***************************************************************************)
\* @Component({ selector: 'x', template: '<p>hi</p>' })
ScenarioAText ==
    ComponentText(<<StrEntry("selector", "x"), StrEntry("template", TemplateText)>>,
                  [lead |-> 1, cmt |-> FALSE, gap |-> FALSE, trail |-> FALSE, wide |-> FALSE])

ScenarioAHandled ==
    /\ run = 1
    /\ runStart = (ComponentPath :> ScenarioAText)
    /\ Handled(ComponentPath)

\* C1: once x.component.ts with the block { selector: 'x', template: '<p>hi</p>' }
\* has been processed (no x.component.html existing before), its block is
\* { selector: 'x', templateUrl: './x.component.html' } - the selector entry,
\* one separator, the templateUrl entry - and x.component.html exists and
\* holds <p>hi</p>.
C1_ScenarioA ==
    ScenarioAHandled =>
        /\ BlockTokens(tree[ComponentPath])
             = <<StrEntry("selector", "x"), Comma,
                 StrEntry("templateUrl", "./x.component.html")>>
        /\ HtmlPath \in DOMAIN tree
        /\ tree[HtmlPath] = <<Raw(TemplateText)>>

\* The file p had exactly one of its entries replaced in the current run
OneEntryReplaced(p) == p \in DOMAIN edits /\ Len(Committed(p)) = 1

\* C2: after one entry of a block of N >= 2 entries was replaced, whatever its
\* position, the block has exactly N - 1 separators between its N entries:
\* no two adjacent entries without a separator, no doubled separator, no
\* separator directly after the opening delimiter.
C2_SeparatorInvariant ==
    \A p \in DOMAIN edits :
        (OneEntryReplaced(p) /\ EntryCount(runStart[p]) >= 2) =>
            LET tokens == BlockTokens(tree[p])
            IN /\ StructurallyValid(tokens)
               /\ Len(EntriesOf(tokens)) = EntryCount(runStart[p])
               /\ SeparatorsBetween(tokens) = EntryCount(runStart[p]) - 1

\* The key of the reference entry that replaces the literal entry of a concern
ReferenceKey(concern) == IF concern = "template" THEN "templateUrl" ELSE "styleUrls"

\* C3: after one literal entry of an N-entry block was replaced, the block is
\* structurally valid and has exactly N entries: the reference entry stands
\* at the ordinal position of the entry it replaced and every other entry
\* keeps its text and its relative order.
C3_EntryCountPreserved ==
    \A p \in DOMAIN edits :
        OneEntryReplaced(p) =>
            LET before == EntriesOf(BlockTokens(runStart[p]))
                after == EntriesOf(BlockTokens(tree[p]))
                k == OrdinalOf(runStart[p], Committed(p)[1].concern)
            IN /\ StructurallyValid(BlockTokens(tree[p]))
               /\ Len(after) = Len(before)
               /\ \A i \in 1..Len(before) :
                     IF i = k
                     THEN i <= Len(after)
                          /\ after[i].key = ReferenceKey(Committed(p)[1].concern)
                     ELSE i <= Len(after) /\ after[i] = before[i]

\* The literal entry of the concern is the lexically last entry of the block of text
IsLastEntry(text, concern) ==
    /\ EntryCount(text) >= 1
    /\ OrdinalOf(text, concern) = EntryCount(text)

\* A separator stands right before the closing delimiter of the block of text
HasTrailingSeparator(text) ==
    LET tokens == BlockTokens(text)
    IN Len(tokens) >= 1 /\ tokens[Len(tokens)] = Comma

C5_Idempotent == run >= 2 => tree = runStart


\* The migration of the concern fired for p in the current run: an edit of
\* the file was computed for it
Fired(p, concern) ==
    /\ p \in DOMAIN edits
    /\ \E i \in 1..Len(edits[p]) : edits[p][i].concern = concern

\* The block of p holds a reference entry of the concern that names url
References(p, concern, url) ==
    LET es == EntriesOf(BlockTokens(tree[p]))
    IN \E i \in 1..Len(es) :
          /\ es[i].key = ReferenceKey(concern)
          /\ \E j \in 1..Len(es[i].els) : es[i].els[j] = Lit(url)

\* Every file that is not a component file keeps the content it had when
\* the run started
ExternalFilesKept ==
    \A q \in DOMAIN runStart :
        ~EndsWithComponentTs(q) => (q \in DOMAIN tree /\ tree[q] = runStart[q])

\* C6: a target file (.html of a template migration, .scss of a styles
\* migration) that exists when migrate reaches the unit keeps its content,
\* and the owning entry is nevertheless rewritten to reference its path.
C6_NonOverwrite ==
    /\ ExternalFilesKept
    /\ (Fired(ComponentPath, "template") /\ HtmlPath \in DOMAIN runStart)
          => References(ComponentPath, "template", "./x.component.html")
    /\ (Fired(ComponentPath, "styles") /\ ScssPath \in DOMAIN runStart)
          => References(ComponentPath, "styles", "./x.component.scss")


\* A text without its last symbol when that symbol is a separator
DropLastSeparator(text) ==
    IF Len(text) >= 1 /\ text[Len(text)] = Comma THEN Front(text) ELSE text

\* The texts left of text when the separator that follows optional
\* whitespace at its start is taken away, alone or with that whitespace
DropFirstSeparator(text) ==
    LET n == CommaMatchAfter(text, 0)
    IN IF n = 0 THEN {text}
       ELSE {text,
             Substring(text, n, Len(text)),
             Substring(text, 0, n - 1) \o Substring(text, n, Len(text))}

\* C7: a migration changes only the replaced entry itself (its core token
\* range) and at most its adjacent separator: the text before the entry's
\* full start, its leading trivia and the text after its end are the same
\* symbols in the same order after the rewrite.
C7_OnlyEntryChanged ==
    \A p \in DOMAIN edits :
        OneEntryReplaced(p) =>
            LET e == Committed(p)[1]
                text0 == runStart[p]
                node == FindProperty(findComponentDecorator(text0), e.concern)
                before == Substring(text0, 0, node.pos)
                trivia == Substring(text0, node.pos, node.start)
                after == Substring(text0, node.end, Len(text0))
            IN \E pre \in {before, DropLastSeparator(before)} :
                   \E suf \in DropFirstSeparator(after) :
                       tree[p] = pre \o trivia \o e.insert \o suf

\* @Component({ template: '<p>hi</p>', styles: ['a{}', 'b{}'] })
ScenarioBText ==
    ComponentText(<<StrEntry("template", TemplateText),
                    ArrEntry("styles", <<Lit("a{}"), Lit("b{}")>>)>>,
                  [lead |-> 1, cmt |-> FALSE, gap |-> FALSE, trail |-> FALSE, wide |-> FALSE])

ScenarioBHandled ==
    /\ run = 1
    /\ runStart = (ComponentPath :> ScenarioBText)
    /\ Handled(ComponentPath)

\* C8: once x.component.ts with the block
\* { template: '<p>hi</p>', styles: ['a{}', 'b{}'] } has been processed, the
\* markup file and the two stylesheet files exist and the block is exactly a
\* templateUrl entry, one separator, and a styleUrls entry listing the two
\* stylesheet paths in order.
C8_ScenarioB ==
    ScenarioBHandled =>
        /\ BlockTokens(tree[ComponentPath])
             = <<StrEntry("templateUrl", "./x.component.html"), Comma,
                 ArrEntry("styleUrls", <<Lit("./x.component.scss"),
                                         Lit("./x.component-2.scss")>>)>>
        /\ {HtmlPath, ScssPath, Scss2Path} \subseteq DOMAIN tree
        /\ tree[HtmlPath] = <<Raw(TemplateText)>>
        /\ tree[ScssPath] = <<Raw("a{}")>>
        /\ tree[Scss2Path] = <<Raw("b{}")>>

\* C9: every edit of a component file is applied to the text its removal
\* range and insertion position were computed from, never to a text that an
\* earlier committed edit of the same file has changed.
C9_EditsOnOriginalText ==
    \A p \in DOMAIN edits :
        \A i \in 1..Len(edits[p]) : edits[p][i].onOriginal

\* C10: once a component file has been processed, either every edit computed
\* for it has landed, or none has and the file's text is its original text.
C10_PerUnitAtomic ==
    \A p \in DOMAIN edits :
        \/ \A i \in 1..Len(edits[p]) : edits[p][i].committed
        \/ /\ \A i \in 1..Len(edits[p]) : ~edits[p][i].committed
           /\ tree[p] = runStart[p]


\* The block of text holds a usable literal entry of the concern: a literal
\* string, or for styles a list whose every element is a literal string
HasLiteral(text, concern) ==
    LET d == findComponentDecorator(text)
        node == FindProperty(d, concern)
    IN /\ d.found
       /\ node.found
       /\ \/ node.sym.kind = "str"
          \/ /\ concern = "styles"
             /\ node.sym.kind = "arr"
             /\ \A i \in 1..Len(node.sym.els) : node.sym.els[i].lit

\* The block of text holds the reference entry of the concern
HasReference(text, concern) ==
    LET es == EntriesOf(BlockTokens(text))
    IN \E i \in 1..Len(es) :
          es[i].key = ReferenceKey(concern) /\ es[i].kind # "unnamed"

\* C11: for a processed component file the template migration fires if and
\* only if its block has a literal template entry and no templateUrl entry,
\* and the styles migration fires if and only if its block has a literal
\* styles entry and no styleUrls entry, each decision taken without regard
\* to the other concern.
C11_FireConditions ==
    \A p \in DOMAIN outcome :
        (Handled(p) /\ EndsWithComponentTs(p)) =>
            \A concern \in {"template", "styles"} :
                Fired(p, concern) <=>
                    (HasLiteral(runStart[p], concern) /\ ~HasReference(runStart[p], concern))


\* The external file the template migration of p targets
TemplateTarget(p) == JoinPath(dirname(p), htmlFileName(basename(p)))

\* The external files a styles migration of p can target
StylesTargets(p) == {JoinPath(dirname(p), scssFileName(basename(p), i)) : i \in 0..2}

\* The files of the tree that did not exist when the run started
CreatedFiles == DOMAIN tree \ DOMAIN runStart

\* The block of text holds no entry of the concern's literal key
LiteralAbsent(text, concern) ==
    LET es == EntriesOf(BlockTokens(text))
    IN \A i \in 1..Len(es) : es[i].key # concern

\* Nothing is to be migrated for the concern in the file p
NotACandidate(p, concern) ==
    \/ ~EndsWithComponentTs(p)
    \/ ~findComponentDecorator(runStart[p]).found
    \/ HasReference(runStart[p], concern)
    \/ LiteralAbsent(runStart[p], concern)

\* The edits computed for the concern in the file p
EditsOf(p, concern) ==
    IF p \in DOMAIN edits
    THEN SelectSeq(edits[p], LAMBDA e : e.concern = concern) ELSE <<>>

\* C12: a file whose name does not end in .component.ts, or that holds no
\* class with a @Component({...}) block, or whose reference entry of a
\* concern is present, or whose literal entry of a concern is absent, gets
\* no edit and no external file for that concern; when this is so for both
\* concerns the file keeps its text.
C12_NonCandidatesUntouched ==
    \A p \in DOMAIN runStart :
        /\ NotACandidate(p, "template")
              => (EditsOf(p, "template") = <<>> /\ TemplateTarget(p) \notin CreatedFiles)
        /\ NotACandidate(p, "styles")
              => (EditsOf(p, "styles") = <<>> /\ StylesTargets(p) \cap CreatedFiles = {})
        /\ (NotACandidate(p, "template") /\ NotACandidate(p, "styles"))
              => (p \in DOMAIN tree /\ tree[p] = runStart[p])

\* Files of each kind of non-candidate were handed over and the run returned
C12_Witness ==
    /\ phase = "returned"
    /\ run = 1
    /\ \E p \in DOMAIN outcome : outcome[p] = "NotComponentFile"
    /\ \E p \in DOMAIN outcome : outcome[p] = "NoDecorator"
    /\ \E p \in DOMAIN outcome :
          /\ Handled(p)
          /\ EndsWithComponentTs(p)
          /\ findComponentDecorator(runStart[p]).found
          /\ HasReference(runStart[p], "template")
          /\ ~LiteralAbsent(runStart[p], "template")
    /\ CreatedFiles # {}


\* An exception was thrown while the file p was being processed
Faulted(p) == p \in DOMAIN outcome /\ outcome[p] \in {"Caught", "Thrown"}

\* An error diagnostic about the file p was logged
ErrorLogged(p) ==
    \E i \in 1..Len(log) : log[i].level = "error" /\ log[i].path = p

\* The callback of the build at work
Visit(t, p) == IF variant = "v1" THEN VisitV1(t, p) ELSE VisitV2(t, p)

\* The file q and its targets are what processing q alone, on the tree the
\* run started from, makes of them
AsAlone(q) ==
    LET r == Visit(runStart, q)
    IN /\ outcome[q] = r.ret
       /\ tree[q] = r.tree[q]
       /\ \A x \in {TemplateTarget(q)} \cup StylesTargets(q) :
             /\ x \in DOMAIN tree <=> x \in DOMAIN r.tree
             /\ x \in DOMAIN tree => tree[x] = r.tree[x]

\* C13: when the processing of a file faults, an error diagnostic about it
\* is logged, the run is not aborted, and once the run has returned every
\* file has been processed with the outcome it has when processed alone.
C13_FaultIsolation ==
    \A p \in DOMAIN outcome :
        Faulted(p) =>
            /\ ErrorLogged(p)
            /\ phase # "aborted"
            /\ phase = "returned" => \A q \in DOMAIN outcome : Handled(q) /\ AsAlone(q)


\* A fatal diagnostic was logged
FatalLogged == \E i \in 1..Len(log) : log[i].level = "fatal"

\* C14: a run in which every file was handed over returns the tree whatever
\* the skips and failures of single files, and a run fails only when the
\* enumeration itself faults, with a fatal diagnostic logged: no failure of
\* a single file makes the run fail.
C14_ReturnsUnlessEnumerationFaults ==
    /\ \A p \in DOMAIN outcome : Faulted(p) => phase # "aborted"
    /\ phase = "aborted" => FatalLogged
    /\ (phase = "visiting" /\ pending = <<>>) => ENABLED Return


\* x.component.scss for index 0, x.component-(i+1).scss for an index i >= 1
ExpectedScssName(i) ==
    IF i = 0 THEN "x.component.scss"
    ELSE "x.component-" \o ToString(i + 1) \o ".scss"

ExpectedScssPath(i) ==
    IF i = 0 THEN Path(AppDir, <<"x", "component", "scss">>)
    ELSE Path(AppDir, <<"x", "component-" \o ToString(i + 1), "scss">>)

\* The elements of the literal styles entry of text: one for a scalar
StyleElements(text) == FindProperty(findComponentDecorator(text), "styles").sym.els

\* The styles migration of x.component.ts was committed for a usable literal
StylesEmitted ==
    /\ HasLiteral(runStart[ComponentPath], "styles")
    /\ \E i \in 1..Len(Committed(ComponentPath)) :
          Committed(ComponentPath)[i].concern = "styles"

TargetsOf(p, concern) ==
    IF concern = "template" THEN {TemplateTarget(p)} ELSE StylesTargets(p)

\* The block of text holds an entry of the concern that is no usable literal
HasUnusable(text, concern) ==
    /\ findComponentDecorator(text).found
    /\ ~LiteralAbsent(text, concern)
    /\ ~HasLiteral(text, concern)

\* C16: an entry whose value is no usable literal (template not a literal
\* string, styles neither a literal string nor a list of literal strings
\* only) is never migrated: no edit is computed for it, no external file is
\* created for it, and the entry stands unchanged in the file.
C16_UnusableNeverMigrated ==
    \A concern \in {"template", "styles"} :
        (Handled(ComponentPath) /\ HasUnusable(runStart[ComponentPath], concern)) =>
            /\ EditsOf(ComponentPath, concern) = <<>>
            /\ TargetsOf(ComponentPath, concern) \cap CreatedFiles = {}
            /\ \E j \in 1..Len(tree[ComponentPath]) :
                  tree[ComponentPath][j]
                     = FindProperty(findComponentDecorator(runStart[ComponentPath]),
                                    concern).sym


\* The block of the first class of text, in source order, that carries a
\* call of Component with an object literal as its first argument
FirstComponentBlock(text) ==
    IF ComponentBlocks(text) = {} THEN NoBlock
    ELSE BlockAt(text, Min(ComponentBlocks(text)) + 1)

\* C17: the block that is migrated is the block of the first class, in
\* source order, decorated by a call of Component with an object literal as
\* first argument: every committed edit of a file removes text inside that
\* block, and a markup file created for it holds that block's template.
C17_FirstBlockMigrated ==
    \A p \in DOMAIN edits :
        \A i \in 1..Len(Committed(p)) :
            LET b == FirstComponentBlock(runStart[p])
                e == Committed(p)[i]
            IN /\ b.found
               /\ b.open <= e.removalStart
               /\ e.removalEnd < b.close
               /\ (e.concern = "template" /\ TemplateTarget(p) \in CreatedFiles)
                     => tree[TemplateTarget(p)]
                          = <<Raw(FindProperty(b, "template").sym.els[1].text)>>


\* The template migration of x.component.ts was committed
TemplateEmitted ==
    \E i \in 1..Len(Committed(ComponentPath)) :
        Committed(ComponentPath)[i].concern = "template"

\* C18: a committed template migration of /src/app/x.component.ts targets
\* exactly one external file, /src/app/x.component.html, which holds the
\* text of the template literal when the migration created it, and the
\* entry rewritten in the file is templateUrl: './x.component.html'.
C18_MarkupTarget ==
    TemplateEmitted =>
        /\ HtmlPath \in DOMAIN tree
        /\ HtmlPath \notin DOMAIN runStart
              => tree[HtmlPath]
                   = <<Raw(FindProperty(findComponentDecorator(runStart[ComponentPath]),
                                        "template").sym.els[1].text)>>
        /\ CreatedFiles \ StylesTargets(ComponentPath) \subseteq {HtmlPath}
        /\ \E j \in 1..Len(tree[ComponentPath]) :
              tree[ComponentPath][j] = StrEntry("templateUrl", "./x.component.html")


\* The entry of the concern that the block of p held when the run started
\* still stands in the file
StillLiteral(p, concern) ==
    LET node == FindProperty(findComponentDecorator(runStart[p]), concern)
    IN /\ node.found
       /\ \E j \in 1..Len(tree[p]) : tree[p][j] = node.sym

\* C19: once a file has been processed, whether it was migrated, skipped or
\* faulted, no external file of a concern has been created for it while its
\* entry of that concern is still the literal.
C19_CreatedWithRewrite ==
    \A p \in DOMAIN outcome :
        Handled(p) =>
            \A concern \in {"template", "styles"} :
                TargetsOf(p, concern) \cap CreatedFiles # {} => ~StillLiteral(p, concern)


\* The tree a run leaves when the files of order are handed over one after
\* the other, and whether an exception ended it before the last file
RECURSIVE RunAll(_, _)
RunAll(t, order) ==
    IF order = <<>> THEN [tree |-> t, aborted |-> FALSE]
    ELSE LET r == Visit(t, Head(order))
         IN IF r.thrown THEN [tree |-> r.tree, aborted |-> TRUE]
            ELSE RunAll(r.tree, Tail(order))

\* The position of the file p in the sequence order
PositionIn(order, p) == Min({i \in 1..Len(order) : order[i] = p})

\* C20: the result of a run does not depend on the order in which the files
\* are handed over, each exactly once: a run that returns leaves the tree
\* that the run in the reference order leaves, text of every component file
\* and set and content of external files, and a run fails only if the run in
\* the reference order fails.
C20_OrderIndependent ==
    LET R == RunAll(runStart, VisitOrder(Visited(runStart, variant)))
    IN /\ phase = "returned" => (~R.aborted /\ tree = R.tree)
       /\ phase = "aborted" => R.aborted

\* A first run returned, with files created, after two files were handed
\* over against the reference order
C20_Witness ==
    /\ phase = "returned"
    /\ run = 1
    /\ CreatedFiles # {}
    /\ tree[APath] # runStart[APath]
    /\ tree[BPath] # runStart[BPath]
    /\ \E i, j \in 1..Len(log) :
          /\ i < j
          /\ log[i].path \in {APath, BPath, NotePath, LibPath}
          /\ log[j].path \in {APath, BPath, NotePath, LibPath}
          /\ log[i].path # log[j].path
          /\ PositionIn(VisitOrder(Visited(runStart, variant)), log[j].path)
                < PositionIn(VisitOrder(Visited(runStart, variant)), log[i].path)


\* The file p lies under the src/ directory of the tree
UnderSrc(p) == Len(p.dir) >= 1 /\ p.dir[1] = "src"

\* C21: only component files under src/ are processed: a component file
\* outside src/ keeps its text and no external file is created for it.
C21_OnlyUnderSrc ==
    \A p \in DOMAIN runStart :
        (EndsWithComponentTs(p) /\ ~UnderSrc(p)) =>
            /\ p \in DOMAIN tree
            /\ tree[p] = runStart[p]
            /\ (TargetsOf(p, "template") \cup TargetsOf(p, "styles")) \cap CreatedFiles = {}


\* A warn-level diagnostic that names the path q was logged
WarnLogged(q) ==
    \E i \in 1..Len(log) : log[i].level = "warn" /\ log[i].path = q

\* The target q of the concern existed as a file when the run reached
\* x.component.ts and the migration of the concern fired
TargetExisted(concern, q) ==
    /\ run = 1
    /\ Fired(ComponentPath, concern)
    /\ q \in DOMAIN runStart
    /\ runStart[q] # Directory

\* C22: whenever the target file of a migration that fires (the markup file,
\* a stylesheet file) already exists, it is not created anew and keeps its
\* content, a warn-level diagnostic about it is logged, and the edit that
\* rewrites the entry is still committed.
C22_TargetFileExists ==
    /\ TargetExisted("template", HtmlPath) =>
          /\ tree[HtmlPath] = runStart[HtmlPath]
          /\ WarnLogged(HtmlPath)
          /\ \E i \in 1..Len(Committed(ComponentPath)) :
                Committed(ComponentPath)[i].concern = "template"
    /\ TargetExisted("styles", ScssPath) =>
          /\ tree[ScssPath] = runStart[ScssPath]
          /\ WarnLogged(ScssPath)
          /\ \E i \in 1..Len(Committed(ComponentPath)) :
                Committed(ComponentPath)[i].concern = "styles"


\* The separators of a token sequence
SeparatorCount(tokens) == Len(SelectSeq(tokens, LAMBDA x : x = Comma))

\* The node, in the text the run started from, of the entry that the only
\* committed edit of p replaced
ReplacedNode(p) ==
    FindProperty(findComponentDecorator(runStart[p]), Committed(p)[1].concern)

\* C23: when the only entry of a block is migrated, the removal span is the
\* entry's full range [fs, fe), the text inserted holds no separator, and
\* the block then holds the reference entry as its single entry with no
\* separator more than before.
C23_SingleEntry ==
    \A p \in DOMAIN edits :
        (OneEntryReplaced(p) /\ EntryCount(runStart[p]) = 1) =>
            LET e == Committed(p)[1]
                node == ReplacedNode(p)
                tokens == BlockTokens(tree[p])
            IN /\ e.removalStart = node.pos
               /\ e.removalEnd = node.end
               /\ SeparatorCount(e.insert) = 0
               /\ Len(EntriesOf(tokens)) = 1
               /\ EntriesOf(tokens)[1].key = ReferenceKey(e.concern)
               /\ tokens[1].t = "entry"
               /\ SeparatorCount(tokens) = SeparatorCount(BlockTokens(runStart[p]))


\* C24: in a block of more than one entry, when optional whitespace and a
\* separator follow the end of the migrated entry, the removal ends just
\* past that separator, the text inserted ends with its one and only
\* separator, and the block has as many separators after the splice as before.
C24_SeparatorAfter ==
    \A p \in DOMAIN edits :
        (/\ OneEntryReplaced(p)
         /\ EntryCount(runStart[p]) > 1
         /\ CommaMatchAfter(runStart[p], ReplacedNode(p).end) > 0) =>
            LET e == Committed(p)[1]
                node == ReplacedNode(p)
            IN /\ e.removalEnd = node.end + CommaMatchAfter(runStart[p], node.end)
               /\ runStart[p][e.removalEnd] = Comma
               /\ SeparatorCount(e.insert) = 1
               /\ e.insert[Len(e.insert)] = Comma
               /\ SeparatorCount(BlockTokens(tree[p]))
                     = SeparatorCount(BlockTokens(runStart[p]))


\* The 0-based offset of the separator that, followed by whitespace only,
\* ends the first off symbols of text; -1 when there is none
SeparatorOffsetBefore(text, off) ==
    LET k == SkipWhitespaceBackward(text, off)
    IN IF k >= 1 /\ text[k] = Comma THEN k - 1 ELSE -1

\* The only committed edit of p replaced an entry of a block of several
\* entries that no separator follows and that a separator precedes
LastAfterSeparator(p) ==
    /\ OneEntryReplaced(p)
    /\ EntryCount(runStart[p]) > 1
    /\ CommaMatchAfter(runStart[p], ReplacedNode(p).end) = 0
    /\ SeparatorOffsetBefore(runStart[p], ReplacedNode(p).pos) >= 0

\* C25: in a block of more than one entry, when no separator follows the
\* migrated entry and the text before its full start ends with a separator
\* and optional whitespace, the removal starts at that separator, the text
\* inserted does not end with a separator, and no separator stands between
\* the new last entry and the closing delimiter.
C25_SeparatorBefore ==
    \A p \in DOMAIN edits :
        LastAfterSeparator(p) =>
            LET e == Committed(p)[1]
            IN /\ e.removalStart = SeparatorOffsetBefore(runStart[p], ReplacedNode(p).pos)
               /\ e.insert[Len(e.insert)] # Comma
               /\ ~HasTrailingSeparator(tree[p])

\* A last entry preceded by a separator was replaced
C25_Witness ==
    /\ LastAfterSeparator(ComponentPath)
    /\ Committed(ComponentPath)[1].removalStart < ReplacedNode(ComponentPath).pos
    /\ tree[ComponentPath] # runStart[ComponentPath]


\* The terminal outcome of a processed file, from the return point its
\* callback took and the edits it committed
TerminalOutcome(p) ==
    IF outcome[p] \in {"NotComponentFile", "Unreadable", "NoDecorator"} THEN "NotCandidate"
    ELSE IF outcome[p] = "HasTemplateUrl" THEN "AlreadyMigrated"
    ELSE IF outcome[p] = "NoInlineTemplate" THEN "NoLiteral"
    ELSE IF outcome[p] = "Updated" THEN "Committed"
    ELSE IF outcome[p] \in {"MissingNode", "Thrown", "Caught"} THEN "Failed"
    ELSE IF outcome[p] = "Finished"
    THEN IF Len(Committed(p)) > 0 THEN "Committed"
         ELSE IF HasReference(runStart[p], "template") \/ HasReference(runStart[p], "styles")
         THEN "AlreadyMigrated"
         ELSE "NoLiteral"
    ELSE "None"

\* The callback got past the checks of a concern for the file p: a value
\* was extracted and the reference entry is absent
EnteredProcessing(p) ==
    LET d == findComponentDecorator(runStart[p])
    IN /\ EndsWithComponentTs(p)
       /\ d.found
       /\ IF variant = "v1"
          THEN /\ ~HasReference(runStart[p], "template")
               /\ getDecoratorPropertyValueV1(d, "template").defined
          ELSE \E concern \in {"template", "styles"} :
                  /\ ~HasReference(runStart[p], concern)
                  /\ getDecoratorPropertyValueV2(d, concern).defined

\* Every file handed over has one of the five terminal outcomes, Committed
\* and Failed only after it entered Processing
OutcomesTerminal ==
    \A p \in DOMAIN outcome :
        Handled(p) =>
            /\ TerminalOutcome(p)
                  \in {"NotCandidate", "AlreadyMigrated", "NoLiteral", "Committed", "Failed"}
            /\ TerminalOutcome(p) \in {"Committed", "Failed"} => EnteredProcessing(p)

\* C26: every file handed to the callback ends in exactly one terminal
\* outcome among NotCandidate, AlreadyMigrated, NoLiteral, Committed and
\* Failed, only a file that entered Processing ends Committed or Failed, and
\* every run terminates after its last file was finalized: it returns with
\* every file of the enumeration processed.
C26_TerminalOutcomes ==
    /\ []OutcomesTerminal
    /\ (phase = "visiting")
          ~> (phase = "returned" /\ \A p \in DOMAIN outcome : Handled(p))


\* The reference entries that stand in the file p and did not stand in it
\* when the run started
WrittenReferences(p) ==
    LET now == SelectSeq(tree[p], LAMBDA x : x.t = "entry")
        before == SelectSeq(runStart[p], LAMBDA x : x.t = "entry")
    IN { now[i] : i \in { j \in 1..Len(now) :
                            /\ now[j].key \in {"templateUrl", "styleUrls"}
                            /\ \A k \in 1..Len(before) : before[k] # now[j] } }

\* The url, read from the directory of the file p, names a file of the tree
Resolves(p, url) ==
    \E q \in DOMAIN tree :
        /\ dirname(q) = dirname(p)
        /\ RelativePath(q.name) = url
        /\ Exists(tree, q)

PropertyNames == {"template", "templateUrl", "styles", "styleUrls"}

\* The texts the lookups can be handed: every file of the tree and every file
\* of the tree the run started on
LookedUpTexts ==
    {tree[p] : p \in DOMAIN tree} \cup {runStart[p] : p \in DOMAIN runStart}

\* C28: whenever getDecoratorPropertyValue returns a value for a property of
\* a block, getDecoratorPropertyNode returns a node for it, and the branch
\* that reports a missing node is never taken: no file ends in it and its
\* error is never logged.
C28_NodeFoundWhenValue ==
    /\ \A text \in LookedUpTexts :
          LET d == findComponentDecorator(text)
          IN d.found =>
                \A name \in PropertyNames :
                    (\/ getDecoratorPropertyValueV1(d, name).defined
                     \/ getDecoratorPropertyValueV2(d, name).defined)
                       => getDecoratorPropertyNode(d, name).found
    /\ \A p \in DOMAIN outcome : outcome[p] # "MissingNode"
    /\ \A i \in 1..Len(log) : log[i].what # "MissingNode"

\* A file whose template value was returned went through the node lookup and
\* was rewritten
C28_Witness ==
    \E p \in DOMAIN outcome :
        /\ Handled(p)
        /\ getDecoratorPropertyValueV1(findComponentDecorator(runStart[p]), "template").defined
        /\ getDecoratorPropertyNode(findComponentDecorator(runStart[p]), "template").found
        /\ \E i \in 1..Len(Committed(p)) : Committed(p)[i].concern = "template"


\* The entry of the block of p, as read when the run started, that the edit
\* e replaces
EditedNode(p, e) == FindProperty(findComponentDecorator(runStart[p]), e.concern)

\* The removal of e covers the entry and lies inside the text it was
\* computed on
RemovalInsideText(p, e) ==
    /\ 0 <= e.removalStart
    /\ e.removalStart <= EditedNode(p, e).pos
    /\ EditedNode(p, e).pos <= EditedNode(p, e).end
    /\ EditedNode(p, e).end <= e.removalEnd
    /\ e.removalEnd <= e.fileLength

\* The insertion of e is made inside the entry
InsertionInsideEntry(p, e) ==
    /\ EditedNode(p, e).pos <= e.insertPos
    /\ e.insertPos <= EditedNode(p, e).end

\* The removal of e ends inside the content its recorder was begun on
RemovalInsideFile(e) == e.removalEnd <= e.baseLength

\* The range guard of part_001 409 has refused an edit
RangeGuardFired == \E i \in 1..Len(log) : log[i].what = "InvalidRemovalRange"

\* C29: for every located entry the computed edit stays inside the file:
\* 0 <= removalStart <= full start of the entry <= insertion position <= end
\* of the entry <= removalEnd <= length of the text, so that the removal
\* length is never negative, and the range guard of part_001 never fires.
C29_EditInsideFile ==
    /\ \A p \in DOMAIN edits :
          \A i \in 1..Len(edits[p]) :
              /\ RemovalInsideText(p, edits[p][i])
              /\ InsertionInsideEntry(p, edits[p][i])
              /\ RemovalInsideFile(edits[p][i])
              /\ edits[p][i].removalEnd - edits[p][i].removalStart >= 0
    /\ ~RangeGuardFired

====
